---------------------------- MODULE Spec2Model ----------------------------
(***************************************************************************)
(* A state-machine model of the archer-defence game of src/src/js/index.ts *)
(* (the richest revision): the Game object, its tick loop, the enemy       *)
(* generator, the Fighter/Enemy/Archer/Bullet class family, and the input  *)
(* listeners of the Archer.                                                *)
(*                                                                         *)
(* Numbers.  The program computes with IEEE doubles.  The model computes   *)
(* with scaled integers:                                                   *)
(*   - a position is kept in units of 1/PosScale pixel;                    *)
(*   - a speed, an attackSpeed are kept in hundredths (1.15 is 115);       *)
(*   - the delta handed to onTick is kept in thousandths (0.9 is 900);     *)
(*   - an angle is kept by its cosine and sine, each times DirScale        *)
(*     (rounded), or as NaN; the Archer's key heading is also kept in      *)
(*     degrees;                                                            *)
(*   - wall-clock time (Date.now()) is in milliseconds since the Game was  *)
(*     constructed; every Date.now() read inside one timer callback        *)
(*     returns the same value.                                             *)
(* Comparisons the program makes on square roots (detectCollision,         *)
(* canAttackArcher) are made on the squares, which is exact.               *)
(*                                                                         *)
(* The DOM (element styles, appendChild/removeChild, the counters of       *)
(* GameInterface, lookOn's rotation) is presentation and is not modelled;  *)
(* window.alert is kept as the list of messages shown.  callSuperMethod    *)
(* builds a throw-away instance of the super class and applies its method  *)
(* to `this`: it is modelled as the plain super call.                      *)
(***************************************************************************)
EXTENDS Integers, Sequences, FiniteSets, TLC

(***************************************************************************)
(* Bounds of the model.                                                    *)
(***************************************************************************)
MaxTicks == 4          \* timer callbacks delivered in one run
MaxInputs == 2         \* input events (mouse, keyboard) delivered in one run
PosScale == 10         \* position units per pixel
DirScale == 100        \* scale of a cosine or a sine
MaxTotalEnemies == 2   \* Game.totalEnemies of the bounded game is 1..MaxTotalEnemies
MaxKeyInputs == 4      \* keyboard events delivered in one run of SpecKeys

(***************************************************************************)
(* Program constants.                                                      *)
(***************************************************************************)
FullTotalEnemies == 143 \* Game.totalEnemies
TickPeriod == 30       \* setInterval(..., 30)
NormalRate == 30       \* the 30 of delta / (1000 / 30)
GenerationPeriod == 1000 \* lastTimeOfEnemyGeneration + 1000
MaxLevel == 10         \* Math.min(..., 10) in addScore
SwordTickTime == 5     \* SkeletonsSword.tickTime

(***************************************************************************)
(* Inputs: the GameParams given to the constructor, the time between two   *)
(* timer callbacks (setInterval is late when the window is throttled), the *)
(* values Math.random() returns (numerator, denominator), the places the   *)
(* pointer is moved to (pixels) and the arrow keys.                        *)
(***************************************************************************)
gameParams == [gameWindowWidth |-> 40, gameWindowHeight |-> 40]
ElapsedSet == {TickPeriod, 100, 1000}
RandomDraws == {<<1, 2>>}
PointerTargets == {<<20, 40>>, <<20, 20>>}

MoveDirections == [Right |-> 0, Down |-> 90, Left |-> 180, Up |-> 270]
DirectionKeys == {"Right", "Down", "Left", "Up"}

(***************************************************************************)
(* Arithmetic helpers.                                                     *)
(***************************************************************************)
Min(a, b) == IF a <= b THEN a ELSE b
Max(a, b) == IF a >= b THEN a ELSE b
Abs(a) == IF a < 0 THEN -a ELSE a
Sgn(a) == IF a < 0 THEN -1 ELSE IF a > 0 THEN 1 ELSE 0

\* n / d rounded to the nearest integer (d > 0), halves away from zero
Round(n, d) == Sgn(n) * ((2 * Abs(n) + d) \div (2 * d))

RECURSIVE IsqrtIter(_, _, _)
IsqrtIter(n, lo, hi) ==
    IF hi - lo <= 1 THEN lo
    ELSE CHOOSE r \in {IF mid * mid <= n THEN IsqrtIter(n, mid, hi)
                                            ELSE IsqrtIter(n, lo, mid) :
                        mid \in {(lo + hi) \div 2}} : TRUE

\* Math.floor(Math.sqrt(n)) for 0 <= n < 2^31
Isqrt(n) == IsqrtIter(n, 0, Min(n + 1, 46341))

\* Math.floor(Math.random() * (max - min + 1) + min), Math.random() = r[1]/r[2]
random(min, max, r) == ((r[1] * (max - min + 1)) \div r[2]) + min

SeqRemove(s, e) == SelectSeq(s, LAMBDA v : v # e)
SeqHas(s, e) == \E i \in 1..Len(s) : s[i] = e

(***************************************************************************)
(* Angles.  An angle is [c, s, nan]: its cosine and sine times DirScale.   *)
(***************************************************************************)
NaNAngle == [c |-> 0, s |-> 0, nan |-> TRUE]
Angle(c, s) == [c |-> c, s |-> s, nan |-> FALSE]
Plus180(a) == [a EXCEPT !.c = -a.c, !.s = -a.s]

\* cos and sin of a multiple of 45 degrees
Diag == Round(70711 * DirScale, 100000)
AngleOfDegrees(deg) ==
    LET d == deg % 360
    IN CASE d = 0   -> Angle(DirScale, 0)
         [] d = 45  -> Angle(Diag, Diag)
         [] d = 90  -> Angle(0, DirScale)
         [] d = 135 -> Angle(-Diag, Diag)
         [] d = 180 -> Angle(-DirScale, 0)
         [] d = 225 -> Angle(-Diag, -Diag)
         [] d = 270 -> Angle(0, -DirScale)
         [] d = 315 -> Angle(Diag, -Diag)

\* Math.atan(diffY / diffX): an angle in [-90, 90], NaN for 0/0
Atan(diffY, diffX) ==
    IF diffX = 0
    THEN IF diffY = 0 THEN NaNAngle
         ELSE Angle(0, Sgn(diffY) * DirScale)
    ELSE LET dist == Isqrt(diffX * diffX + diffY * diffY)
             c == Min(DirScale, Round(Abs(diffX) * DirScale, dist))
             s == Min(DirScale, Round(Abs(diffY) * DirScale, dist))
         IN Angle(c, Sgn(diffY) * Sgn(diffX) * s)

\* getAngleToTarget without its two corrections by 180 degrees
getAngleToTargetRaw(sx, sy, x, y) == Atan(sy - y, sx - x)

\* DynamicGameObject.getAngleToTarget of an object at (sx, sy)
getAngleToTarget(sx, sy, x, y) ==
    LET diffX == sx - x
        diffY == sy - y
        angle == Atan(diffY, diffX)
    IN IF angle.nan THEN angle
       ELSE IF diffY >= 0 /\ diffX >= 0 THEN Plus180(angle)
       ELSE IF diffY <= 0 /\ diffX >= 0 THEN Plus180(angle)
       ELSE angle

\* the distance covered in one update, in position units: speed * delta
Travel(speed, delta) == Round(speed * delta * PosScale, 100 * 1000)

\* detectCollision with distance <= radius1 + radius2
detectCollisionTouching(o1, o2) ==
    LET d1 == Min(o1.width, o1.height)
        d2 == Min(o2.width, o2.height)
        dx == o1.x - o2.x
        dy == o1.y - o2.y
    IN /\ ~o1.nan
       /\ ~o2.nan
       /\ 4 * (dx * dx + dy * dy) <= ((d1 + d2) * PosScale) * ((d1 + d2) * PosScale)

\* detectCollision
detectCollision(o1, o2) ==
    LET d1 == Min(o1.width, o1.height)
        d2 == Min(o2.width, o2.height)
        dx == o1.x - o2.x
        dy == o1.y - o2.y
    IN /\ ~o1.nan
       /\ ~o2.nan
       /\ 4 * (dx * dx + dy * dy) < ((d1 + d2) * PosScale) * ((d1 + d2) * PosScale)

(***************************************************************************)
(* ENEMIES: the three enemy definitions; attackSpeeds and speeds in        *)
(* hundredths, sizes and attackRanges in pixels.                           *)
(***************************************************************************)
ENEMIES ==
    << [size |-> [width |-> 25, height |-> 22], bullet |-> "SkeletonsSword",
        attackRanges |-> <<20, 20, 20>>,
        attackSpeeds |-> <<100, 200, 300>>,
        speeds |-> <<100, 150, 200>>],
       [size |-> [width |-> 25, height |-> 25], bullet |-> "EnemiesArrow",
        attackRanges |-> <<140, 160, 180>>,
        attackSpeeds |-> <<50, 75, 100>>,
        speeds |-> <<75, 115, 150>>],
       [size |-> [width |-> 25, height |-> 24], bullet |-> "EnemiesFireBall",
        attackRanges |-> <<170, 200, 230>>,
        attackSpeeds |-> <<40, 60, 80>>,
        speeds |-> <<60, 100, 140>>] >>

BulletKinds == {"Bullet", "ArchersBullet", "EnemiesArrow", "EnemiesFireBall", "SkeletonsSword"}
EnemiesBulletKinds == {"EnemiesArrow", "EnemiesFireBall", "SkeletonsSword"}

(***************************************************************************)
(* Objects.  init() of each class, applied down the class chain by         *)
(* NewObject.  inGame says addToGame has run (this.game, this.bindOnTick). *)
(* born (the time of construction) and owner (the Fighter whose attackTo   *)
(* constructed a projectile, 0 for any other object) are history fields:   *)
(* the program does not keep them and the model never reads them.          *)
(***************************************************************************)
GameObjectInit(kind) ==
    [kind |-> kind, x |-> 0, y |-> 0, nan |-> FALSE, width |-> 0, height |-> 0,
     destroyed |-> FALSE, inGame |-> FALSE, born |-> 0, owner |-> 0,
     speed |-> 0, lastAttackTime |-> 0, moveAngle |-> NaNAngle,
     attackSpeed |-> 0, attackRange |-> 0, bullet |-> "none", tickTime |-> 0]

\* DynamicGameObject.init leaving lastAttackTime at 0
DynamicGameObjectInitZero(kind, t) ==
    [GameObjectInit(kind) EXCEPT !.speed = 100, !.born = t]

DynamicGameObjectInit(kind, t) ==
    [GameObjectInit(kind) EXCEPT !.speed = 100, !.lastAttackTime = t, !.born = t]

BulletInit(kind, t) ==
    [DynamicGameObjectInit(kind, t) EXCEPT !.width = 20, !.height = 4]

ArchersBulletInit(kind, t) == [BulletInit(kind, t) EXCEPT !.speed = 300]

EnemiesArrowInit(kind, t) == BulletInit(kind, t)

EnemiesFireBallInit(kind, t) ==
    [EnemiesArrowInit(kind, t) EXCEPT !.width = 6, !.height = 6]

SkeletonsSwordInit(kind, t) ==
    [EnemiesArrowInit(kind, t) EXCEPT !.speed = 1000, !.tickTime = SwordTickTime]

FighterInit(kind, t) == [DynamicGameObjectInit(kind, t) EXCEPT !.attackSpeed = 100]

EnemyInit(kind, t) ==
    [FighterInit(kind, t) EXCEPT !.attackRange = 20, !.bullet = "EnemiesArrow"]

ArcherInit(kind, t) ==
    [FighterInit(kind, t) EXCEPT !.bullet = "ArchersBullet", !.attackSpeed = 200,
                                 !.width = 25, !.height = 22]

\* new <kind>() at time t
NewObject(kind, t) ==
    CASE kind = "Archer" -> ArcherInit(kind, t)
      [] kind = "Enemy" -> EnemyInit(kind, t)
      [] kind = "ArchersBullet" -> ArchersBulletInit(kind, t)
      [] kind = "EnemiesArrow" -> EnemiesArrowInit(kind, t)
      [] kind = "EnemiesFireBall" -> EnemiesFireBallInit(kind, t)
      [] kind = "SkeletonsSword" -> SkeletonsSwordInit(kind, t)
      [] OTHER -> BulletInit(kind, t)

\* Enemy.applyParams
applyParams(o, p) ==
    [o EXCEPT !.width = p.size.width, !.height = p.size.height,
              !.attackRange = p.attackRange, !.attackSpeed = p.attackSpeed,
              !.speed = p.speed, !.bullet = p.bullet]

setPosition(o, x, y) == [o EXCEPT !.x = x, !.y = y, !.nan = FALSE]

\* DynamicGameObject.setMoveDirection
setMoveDirection(o, x, y) ==
    [o EXCEPT !.moveAngle = IF o.nan THEN NaNAngle ELSE getAngleToTarget(o.x, o.y, x, y)]

\* DynamicGameObject.stepByMoveAngle
stepByMoveAngle(o, delta) ==
    IF o.nan \/ o.moveAngle.nan
    THEN [o EXCEPT !.nan = TRUE]
    ELSE LET t == Travel(o.speed, delta)
         IN [o EXCEPT !.x = @ + Round(o.moveAngle.c * t, DirScale),
                      !.y = @ + Round(o.moveAngle.s * t, DirScale)]

\* DynamicGameObject.stepTo
stepTo(o, x, y, delta) == stepByMoveAngle(setMoveDirection(o, x, y), delta)

(***************************************************************************)
(* The Game.  The operators below take and return the game g: a record of  *)
(* the fields of Game, of the objects (objs, indexed by creation order;    *)
(* the Archer is object 1), of the Archer's input fields, and of           *)
(*   pending : the callbacks tickSubscriptions.forEach has still to visit  *)
(*             (Set.prototype.forEach visits entries added during the      *)
(*             iteration and does not visit entries deleted before their   *)
(*             turn);                                                      *)
(*   thrown  : an Error is propagating (every operator passes it on);      *)
(*   trace   : the calls made by the handler that is running.              *)
(***************************************************************************)
ArcherId == 1

Event(op, id, n1, n2, n3, flag) ==
    [op |-> op, id |-> id, n1 |-> n1, n2 |-> n2, n3 |-> n3, flag |-> flag]

Log(g, e) == [g EXCEPT !.trace = Append(@, e)]

floorWidth(g) == gameParams.gameWindowWidth * PosScale
floorHeight(g) == gameParams.gameWindowHeight * PosScale

\* Game.destroy without its clearInterval
GameDestroyKeepInterval(g) == [g EXCEPT !.isGamePlay = FALSE]

\* Game.destroy
GameDestroy(g) == [g EXCEPT !.isGamePlay = FALSE, !.tickingInterval = FALSE]

\* Game.gameWin
gameWin(g) ==
    GameDestroy(Log([g EXCEPT !.alerts = Append(@, "Won")],
                    Event("gameWin", 0, 0, 0, 0, FALSE)))

\* Game.gameOver
gameOver(g) ==
    GameDestroy(Log([g EXCEPT !.alerts = Append(@, "Lost")],
                    Event("gameOver", 0, 0, 0, 0, FALSE)))

\* Game.tickSubscribe
tickSubscribe(g, id) ==
    IF SeqHas(g.tickSubscriptions, id) THEN g
    ELSE [g EXCEPT !.tickSubscriptions = Append(@, id),
                   !.pending = IF g.iterating THEN Append(@, id) ELSE @]

\* Game.tickUnsubscribe under a forEach that visits a copy of the set
tickUnsubscribeCopy(g, id) == [g EXCEPT !.tickSubscriptions = SeqRemove(@, id)]

\* Game.tickUnsubscribe
tickUnsubscribe(g, id) ==
    [g EXCEPT !.tickSubscriptions = SeqRemove(@, id),
              !.pending = SeqRemove(@, id)]

\* Game.addScore taking the level from the score before the increment
addScoreStale(g) ==
    [g EXCEPT !.score = g.score + 1,
              !.level = Min(Max(Isqrt(g.score), 1), MaxLevel)]

\* Game.addScore
addScore(g) ==
    LET s == g.score + 1
    IN [g EXCEPT !.score = s,
                 !.level = Min(Max(Isqrt(s), 1), MaxLevel)]

\* GameObject.destroy without its throw
GameObjectDestroyQuiet(g, id) ==
    IF g.thrown THEN g
    ELSE [Log(g, Event("destroy", id, 0, 0, 0, FALSE)) EXCEPT !.objs[id].destroyed = TRUE]

\* GameObject.destroy
GameObjectDestroy(g, id) ==
    IF g.thrown THEN g
    ELSE IF g.objs[id].destroyed
    THEN [Log(g, Event("destroy", id, 0, 0, 0, TRUE)) EXCEPT !.thrown = TRUE]
    ELSE [Log(g, Event("destroy", id, 0, 0, 0, FALSE)) EXCEPT !.objs[id].destroyed = TRUE]

\* DynamicGameObject.destroy without its tickUnsubscribe
DynamicGameObjectDestroyKeepSub(g, id) == GameObjectDestroy(g, id)

\* DynamicGameObject.destroy
DynamicGameObjectDestroy(g, id) ==
    LET g1 == GameObjectDestroy(g, id)
    IN IF g1.thrown THEN g1
       ELSE IF g1.objs[id].inGame THEN tickUnsubscribe(g1, id)
       ELSE g1

\* Enemy.destroy without its enemies.delete
EnemyDestroyNoDelete(g, id) ==
    LET g1 == DynamicGameObjectDestroy(g, id)
    IN IF g1.thrown THEN g1
       ELSE IF g1.objs[id].inGame
       THEN addScore(Log(g1, Event("addScore", id, 0, 0, 0, FALSE)))
       ELSE g1

\* Enemy.destroy
EnemyDestroy(g, id) ==
    LET g1 == DynamicGameObjectDestroy(g, id)
    IN IF g1.thrown THEN g1
       ELSE IF g1.objs[id].inGame
       THEN LET g2 == addScore(Log(g1, Event("addScore", id, 0, 0, 0, FALSE)))
            IN [g2 EXCEPT !.enemies = SeqRemove(@, id)]
       ELSE g1

\* destroy() of object id, by its class
Destroy(g, id) ==
    IF g.objs[id].kind = "Enemy" THEN EnemyDestroy(g, id)
    ELSE DynamicGameObjectDestroy(g, id)

\* DynamicGameObject.addToGame of a new object o: its id is returned as Len(objs)
DynamicGameObjectAddToGame(g, o) ==
    LET id == Len(g.objs) + 1
        g1 == [g EXCEPT !.objs = Append(@, [o EXCEPT !.inGame = TRUE])]
    IN tickSubscribe(g1, id)

\* Enemy.addToGame
EnemyAddToGame(g, o) ==
    LET g1 == DynamicGameObjectAddToGame(g, o)
    IN [g1 EXCEPT !.enemies = Append(@, Len(g1.objs))]

\* the cooldown test with <= for <
cooldownOverNonStrict(me, t) ==
    me.lastAttackTime * me.attackSpeed + 1000 * 100 <= t * me.attackSpeed

\* the test of Fighter.attackTo: lastAttackTime + 1000 / attackSpeed < now
\* (attackSpeed is in hundredths: both sides are multiplied by it)
cooldownOver(me, t) ==
    me.lastAttackTime * me.attackSpeed + 1000 * 100 < t * me.attackSpeed

\* Fighter.attackTo restarting the cooldown at a call that does not fire
attackToRearm(g, id, x, y, t) ==
    IF g.thrown THEN g
    ELSE LET me == g.objs[id]
             fires == cooldownOver(me, t)
             g1 == Log(g, Event("attackTo", id, t, me.lastAttackTime, me.attackSpeed, fires))
         IN IF fires
            THEN LET b0 == [NewObject(me.bullet, t) EXCEPT !.owner = id]
                     b1 == IF me.nan THEN [b0 EXCEPT !.nan = TRUE]
                           ELSE setPosition(b0, me.x, me.y)
                     b2 == setMoveDirection(b1, x, y)
                     g2 == DynamicGameObjectAddToGame(g1, b2)
                 IN [g2 EXCEPT !.objs[id].lastAttackTime = t]
            ELSE [g1 EXCEPT !.objs[id].lastAttackTime = t]

\* Fighter.attackTo at time t
attackTo(g, id, x, y, t) ==
    IF g.thrown THEN g
    ELSE LET me == g.objs[id]
             fires == cooldownOver(me, t)
             g1 == Log(g, Event("attackTo", id, t, me.lastAttackTime, me.attackSpeed, fires))
         IN IF fires
            THEN LET b0 == [NewObject(me.bullet, t) EXCEPT !.owner = id]
                     b1 == IF me.nan THEN [b0 EXCEPT !.nan = TRUE]
                           ELSE setPosition(b0, me.x, me.y)
                     b2 == setMoveDirection(b1, x, y)
                     g2 == DynamicGameObjectAddToGame(g1, b2)
                 IN [g2 EXCEPT !.objs[id].lastAttackTime = t]
            ELSE g1

(***************************************************************************)
(* onTick of each class.  delta is in thousandths, t is Date.now().        *)
(***************************************************************************)
\* Bullet.onTick.  (CHOOSE r \in {e(v) : v \in {x}} : TRUE is e(x) with x
\* evaluated once, as the local it is in the code.)
BulletOnTick(g, id, delta) ==
    IF g.thrown THEN g
    ELSE CHOOSE r \in
           {LET g1 == [g EXCEPT !.objs[id] = o]
            IN IF ~o.nan /\ (o.x < 0 \/ o.x > floorWidth(g) \/ o.y < 0 \/ o.y > floorHeight(g))
               THEN Destroy(g1, id)
               ELSE g1 : o \in {stepByMoveAngle(g.objs[id], delta)}} : TRUE

\* the body of the forEach of ArchersBullet.checkEnemiesCollision, over the
\* enemies still to visit
RECURSIVE CollideEach(_, _, _)
CollideEach(g, id, todo) ==
    IF g.thrown \/ todo = <<>> THEN g
    ELSE LET enemy == Head(todo)
         IN IF ~SeqHas(g.enemies, enemy) THEN CollideEach(g, id, Tail(todo))
            ELSE IF detectCollision(g.objs[id], g.objs[enemy])
            THEN CHOOSE r \in {CollideEach(g1, id, Tail(todo)) :
                                g1 \in {Destroy(Destroy(g, id), enemy)}} : TRUE
            ELSE CollideEach(g, id, Tail(todo))

\* ArchersBullet.checkEnemiesCollision
checkEnemiesCollision(g, id) == CollideEach(g, id, g.enemies)

\* ArchersBullet.onTick
ArchersBulletOnTick(g, id, delta) ==
    CHOOSE r \in {checkEnemiesCollision(g1, id) : g1 \in {BulletOnTick(g, id, delta)}} : TRUE

\* EnemiesArrow.onTick testing the collision before the movement step
EnemiesArrowOnTickEarly(g, id, delta) ==
    LET hit == detectCollision(g.objs[id], g.objs[ArcherId])
        g1 == BulletOnTick(g, id, delta)
    IN IF g1.thrown THEN g1
       ELSE IF hit THEN gameOver(g1)
       ELSE g1

\* EnemiesArrow.onTick (EnemiesFireBall inherits it)
EnemiesArrowOnTick(g, id, delta) ==
    CHOOSE r \in
      {IF g1.thrown THEN g1
       ELSE IF detectCollision(g1.objs[id], g1.objs[ArcherId]) THEN gameOver(g1)
       ELSE g1 : g1 \in {BulletOnTick(g, id, delta)}} : TRUE

\* SkeletonsSword.onTick
SkeletonsSwordOnTick(g, id, delta) ==
    CHOOSE r \in
      {IF g1.thrown THEN g1
       ELSE LET g2 == [g1 EXCEPT !.objs[id].tickTime = @ - 1]
            IN IF g2.objs[id].tickTime = 0 THEN Destroy(g2, id) ELSE g2 :
       g1 \in {EnemiesArrowOnTick(g, id, delta)}} : TRUE

\* Enemy.canAttackArcher with distance < attackRange
canAttackArcherStrict(g, id) ==
    LET diffX == g.objs[id].x - g.objs[ArcherId].x
        diffY == g.objs[id].y - g.objs[ArcherId].y
        range == g.objs[id].attackRange * PosScale
    IN diffX * diffX + diffY * diffY < range * range

\* Enemy.canAttackArcher
canAttackArcher(g, id) ==
    LET diffX == g.objs[id].x - g.objs[ArcherId].x
        diffY == g.objs[id].y - g.objs[ArcherId].y
        range == g.objs[id].attackRange * PosScale
    IN diffX * diffX + diffY * diffY <= range * range

\* Enemy.onTick
EnemyOnTick(g, id, delta, t) ==
    LET archer == g.objs[ArcherId]
    IN IF canAttackArcher(g, id)
       THEN attackTo(g, id, archer.x, archer.y, t)
       ELSE [g EXCEPT !.objs[id] = stepTo(@, archer.x, archer.y, delta)]

\* the heading as the plain mean of the first two directions
ArcherHeadingNoWrap(moveDirections) ==
    LET md0 == MoveDirections[moveDirections[1]]
        md1 == IF Len(moveDirections) >= 2 THEN MoveDirections[moveDirections[2]] ELSE md0
    IN (md0 + md1) \div 2

\* the heading, in degrees, Archer.onTick takes from its moveDirections
ArcherHeading(moveDirections) ==
    LET md0 == MoveDirections[moveDirections[1]]
        md1 == IF Len(moveDirections) >= 2 THEN MoveDirections[moveDirections[2]] ELSE md0
        summ == md0 + md1
    IN (IF Abs(md0 - md1) > 180 THEN summ + 360 ELSE summ) \div 2

\* Archer.onTick
ArcherOnTick(g, id, delta, t) ==
    LET p == g.previousMousemoveEvent
        g1 == IF p # <<>> /\ g.isMouseDown
              THEN attackTo(g, id, p[1] * PosScale, p[2] * PosScale, t)
              ELSE g
    IN IF g1.thrown \/ g.moveDirections = <<>> THEN g1
       ELSE LET a == AngleOfDegrees(ArcherHeading(g.moveDirections))
            IN [g1 EXCEPT !.objs[id] = stepByMoveAngle([@ EXCEPT !.moveAngle = a], delta)]

\* the callback bound by addToGame: this.onTick.bind(this)
OnTick(g, id, delta, t) ==
    LET kind == g.objs[id].kind
        g1 == Log(g, Event("update", id, delta, 0, 0, FALSE))
    IN CASE kind = "Archer" -> ArcherOnTick(g1, id, delta, t)
         [] kind = "Enemy" -> EnemyOnTick(g1, id, delta, t)
         [] kind = "ArchersBullet" -> ArchersBulletOnTick(g1, id, delta)
         [] kind = "SkeletonsSword" -> SkeletonsSwordOnTick(g1, id, delta)
         [] kind \in {"EnemiesArrow", "EnemiesFireBall"} -> EnemiesArrowOnTick(g1, id, delta)
         [] OTHER -> BulletOnTick(g1, id, delta)

(***************************************************************************)
(* Game.generateRandomEnemy at time t; rs are the five values Math.random  *)
(* returns, in the order of the calls.                                     *)
(***************************************************************************)
\* the guard without the rate limit
mayGenerateNoRate(g, t) == g.enemiesLeft # 0

\* the guard of a generateRandomEnemy that always returns early
mayGenerateNever(g, t) == FALSE

\* the guard of generateRandomEnemy (the negation of its early return)
mayGenerate(g, t) ==
    ~(t < g.lastTimeOfEnemyGeneration + GenerationPeriod \/ g.enemiesLeft = 0)

\* the tier taken from level / 2
difficultIndexHalf(lvl, r) == Min(2, random(0, lvl \div 2, r))

\* const difficultIndex
difficultIndexOf(lvl, r) == Min(2, random(0, lvl \div 4, r))

\* const enemyIndex
enemyIndexOf(lvl, r) == Min(2, random(0, Min(lvl - 1, 2), r))

\* both coordinates drawn from the whole range
spawnPositionAnywhere(r3, r4, r5) ==
    <<random(0, gameParams.gameWindowWidth, r4), random(0, gameParams.gameWindowHeight, r5)>>

\* the position given to the new enemy, in pixels
spawnPosition(r3, r4, r5) ==
    LET w == gameParams.gameWindowWidth
        h == gameParams.gameWindowHeight
    IN IF random(0, 1, r3) # 0
       THEN <<random(0, w, r4), random(0, 1, r5) * h>>
       ELSE <<random(0, 1, r4) * w, random(0, h, r5)>>

generateRandomEnemy(g, t, rs) ==
    IF ~mayGenerate(g, t) THEN g
    ELSE LET difficultIndex == difficultIndexOf(g.level, rs[1])
             enemyIndex == enemyIndexOf(g.level, rs[2])
             def == ENEMIES[enemyIndex + 1]
             params == [size |-> def.size, bullet |-> def.bullet,
                        attackRange |-> def.attackRanges[difficultIndex + 1],
                        attackSpeed |-> def.attackSpeeds[difficultIndex + 1],
                        speed |-> def.speeds[difficultIndex + 1]]
             e0 == applyParams(NewObject("Enemy", t), params)
             xy == spawnPosition(rs[3], rs[4], rs[5])
             e1 == setPosition(e0, xy[1] * PosScale, xy[2] * PosScale)
             g1 == [g EXCEPT !.enemiesLeft = @ - 1, !.lastTimeOfEnemyGeneration = t]
             g2 == EnemyAddToGame(g1, e1)
         IN Log(g2, Event("spawn", Len(g2.objs), difficultIndex, enemyIndex, g.level, FALSE))

(***************************************************************************)
(* The timer callback of Game.startTicking, up to the start of the         *)
(* forEach, at time t.                                                     *)
(***************************************************************************)
\* the callback without the return after gameWin()
TickBeginNoReturn(g, t, rs) ==
    LET g0 == IF g.score = g.totalEnemies THEN gameWin(g) ELSE g
        g1 == generateRandomEnemy(g0, t, rs)
    IN [g1 EXCEPT !.iterating = TRUE, !.pending = g1.tickSubscriptions]

TickBegin(g, t, rs) ==
    IF g.score = g.totalEnemies THEN gameWin(g)
    ELSE LET g1 == generateRandomEnemy(g, t, rs)
         IN [g1 EXCEPT !.iterating = TRUE, !.pending = g1.tickSubscriptions]

\* delta / 30, in thousandths: 1.0 for a callback one period after the last
NormalDeltaOfPeriod(elapsed) == (elapsed * 1000) \div TickPeriod

\* delta / (1000 / 30), in thousandths
NormalDelta(elapsed) == elapsed * NormalRate

\* one turn of tickSubscriptions.forEach: the next callback, at time t
TickVisit(g, t) ==
    LET id == Head(g.pending)
        g1 == [g EXCEPT !.pending = Tail(@)]
    IN IF g1.isGamePlay THEN OnTick(g1, id, NormalDelta(t - g1.prevTickTime), t)
       ELSE g1

\* the end of the timer callback
TickFinish(g, t) == [g EXCEPT !.prevTickTime = t, !.iterating = FALSE]

(***************************************************************************)
(* Archer.getMoveDirection and the keys the model presses.                 *)
(***************************************************************************)
getMoveDirection(key) ==
    IF key \in {"s", "ArrowDown"} THEN "Down"
    ELSE IF key \in {"w", "ArrowUp"} THEN "Up"
    ELSE IF key \in {"a", "ArrowLeft"} THEN "Left"
    ELSE IF key \in {"d", "ArrowRight"} THEN "Right"
    ELSE "null"

KeySet == {"ArrowRight", "ArrowDown", "ArrowLeft", "ArrowUp", "Escape"}

\* the keydown listener
keydown(moveDirs, key, repeat) ==
    IF repeat THEN moveDirs
    ELSE LET d == getMoveDirection(key)
         IN IF d # "null" /\ ~SeqHas(moveDirs, d) THEN Append(moveDirs, d) ELSE moveDirs

\* the keyup listener
keyup(moveDirs, key, repeat) ==
    IF repeat THEN moveDirs
    ELSE LET d == getMoveDirection(key)
         IN IF d # "null" THEN SeqRemove(moveDirs, d) ELSE moveDirs

(***************************************************************************)
(* State.                                                                  *)
(***************************************************************************)
VARIABLES
    now,                        \* Date.now() at the last timer callback
    ticks,                      \* timer callbacks delivered
    inputs,                     \* input events delivered
    totalEnemies, level, score, enemiesLeft,          \* Game fields
    enemies,                    \* Game.enemies, in insertion order
    isGamePlay,
    tickSubscriptions,          \* Game.tickSubscriptions, in insertion order
    prevTickTime,
    tickingInterval,            \* TRUE while the interval is set
    lastTimeOfEnemyGeneration,
    objs,                       \* every object created, the Archer first
    alerts,                     \* the messages window.alert has shown
    previousMousemoveEvent,     \* Archer: <<>> or <<clientX, clientY>>
    isMouseDown,                \* Archer
    moveDirections,             \* Archer: a Set, in insertion order
    iterating,                  \* the timer callback is inside its forEach
    pending,                    \* callbacks the forEach has still to visit
    thrown,                     \* the last timer callback ended by an Error
    trace,                      \* the calls made by the last step
    updated,                    \* objects updated by the current timer callback
    spawnTimes,                 \* Date.now() of every enemy generation
    atStart                     \* the last timer callback at the start of its
                                \* forEach: its tick subscriptions and the score

vars == <<now, ticks, inputs, totalEnemies, level, score, enemiesLeft, enemies,
          isGamePlay, tickSubscriptions, prevTickTime, tickingInterval,
          lastTimeOfEnemyGeneration, objs, alerts, previousMousemoveEvent,
          isMouseDown, moveDirections, iterating, pending, thrown, trace,
          updated, spawnTimes, atStart>>

inputVars == <<previousMousemoveEvent, isMouseDown, moveDirections>>

gameVars == <<totalEnemies, level, score, enemiesLeft, enemies, isGamePlay,
              tickSubscriptions, prevTickTime, tickingInterval,
              lastTimeOfEnemyGeneration, objs, alerts, iterating, pending>>

\* the game as a record, with an empty trace and no Error in flight
G ==
    [totalEnemies |-> totalEnemies, level |-> level, score |-> score,
     enemiesLeft |-> enemiesLeft, enemies |-> enemies, isGamePlay |-> isGamePlay,
     tickSubscriptions |-> tickSubscriptions, prevTickTime |-> prevTickTime,
     tickingInterval |-> tickingInterval,
     lastTimeOfEnemyGeneration |-> lastTimeOfEnemyGeneration, objs |-> objs,
     alerts |-> alerts, previousMousemoveEvent |-> previousMousemoveEvent,
     isMouseDown |-> isMouseDown, moveDirections |-> moveDirections,
     iterating |-> iterating, pending |-> pending, thrown |-> FALSE, trace |-> <<>>]

Commit(g) ==
    /\ totalEnemies' = g.totalEnemies
    /\ level' = g.level
    /\ score' = g.score
    /\ enemiesLeft' = g.enemiesLeft
    /\ enemies' = g.enemies
    /\ isGamePlay' = g.isGamePlay
    /\ tickSubscriptions' = g.tickSubscriptions
    /\ prevTickTime' = g.prevTickTime
    /\ tickingInterval' = g.tickingInterval
    /\ lastTimeOfEnemyGeneration' = g.lastTimeOfEnemyGeneration
    /\ objs' = g.objs
    /\ alerts' = g.alerts
    /\ iterating' = g.iterating
    /\ pending' = g.pending
    /\ thrown' = g.thrown
    /\ trace' = g.trace

\* new Game(gameParams) at time 0, up to startTicking()
NewGame(total) ==
    LET g0 == [totalEnemies |-> total, level |-> 1, score |-> 0, enemiesLeft |-> total,
               enemies |-> <<>>, isGamePlay |-> TRUE, tickSubscriptions |-> <<>>,
               prevTickTime |-> 0, tickingInterval |-> TRUE,
               lastTimeOfEnemyGeneration |-> 0, objs |-> <<>>, alerts |-> <<>>,
               previousMousemoveEvent |-> <<>>, isMouseDown |-> FALSE,
               moveDirections |-> <<>>, iterating |-> FALSE, pending |-> <<>>,
               thrown |-> FALSE, trace |-> <<>>]
        archer == setPosition(NewObject("Archer", 0),
                              (gameParams.gameWindowWidth * PosScale) \div 2,
                              (gameParams.gameWindowHeight * PosScale) \div 2)
    IN DynamicGameObjectAddToGame(g0, archer)

\* the variables of a run that starts with game g at time t
InitGame(g, t) ==
    /\ now = t
    /\ ticks = 0
    /\ inputs = 0
    /\ totalEnemies = g.totalEnemies
    /\ level = g.level
    /\ score = g.score
    /\ enemiesLeft = g.enemiesLeft
    /\ enemies = g.enemies
    /\ isGamePlay = g.isGamePlay
    /\ tickSubscriptions = g.tickSubscriptions
    /\ prevTickTime = g.prevTickTime
    /\ tickingInterval = g.tickingInterval
    /\ lastTimeOfEnemyGeneration = g.lastTimeOfEnemyGeneration
    /\ objs = g.objs
    /\ alerts = g.alerts
    /\ previousMousemoveEvent = g.previousMousemoveEvent
    /\ isMouseDown = g.isMouseDown
    /\ moveDirections = g.moveDirections
    /\ iterating = g.iterating
    /\ pending = g.pending
    /\ thrown = FALSE
    /\ trace = <<>>
    /\ updated = <<>>
    /\ spawnTimes = <<>>
    /\ atStart = [subs |-> <<>>, score |-> 0]

InitWith(total) == InitGame(NewGame(total), 0)

Init == \E total \in 1..MaxTotalEnemies : InitWith(total)

EventsOf(tr, op) == SelectSeq(tr, LAMBDA e : e.op = op)

(***************************************************************************)
(* Steps.                                                                  *)
(***************************************************************************)
\* the interval fires, elapsed ms after the last callback: the win check,
\* the enemy generation and the start of the forEach
TickStart(elapsed, rs) ==
    /\ ~iterating
    /\ tickingInterval
    /\ ticks < MaxTicks
    /\ \E g0 \in {G} : \E g \in {TickBegin(g0, now + elapsed, rs)} :
          /\ Commit(g)
          /\ spawnTimes' = IF EventsOf(g.trace, "spawn") # <<>>
                           THEN Append(spawnTimes, now + elapsed) ELSE spawnTimes
    /\ now' = now + elapsed
    /\ ticks' = ticks + 1
    /\ updated' = <<>>
    /\ atStart' = [subs |-> pending', score |-> score']
    /\ UNCHANGED <<inputs, inputVars>>

\* an Error leaves the forEach and the timer callback
TickThrow(g) == [g EXCEPT !.pending = <<>>, !.iterating = FALSE]

\* the forEach visits its next callback
TickDispatch ==
    /\ iterating
    /\ pending # <<>>
    /\ \E g0 \in {G} : \E g \in {TickVisit(g0, now)} :
          /\ Commit(IF g.thrown THEN TickThrow(g) ELSE g)
          /\ updated' = IF EventsOf(g.trace, "update") # <<>>
                        THEN Append(updated, Head(pending)) ELSE updated
    /\ UNCHANGED <<now, ticks, inputs, inputVars, spawnTimes, atStart>>

\* the forEach is over: this.prevTickTime = now
TickEnd ==
    /\ iterating
    /\ pending = <<>>
    /\ Commit(TickFinish(G, now))
    /\ UNCHANGED <<now, ticks, inputs, inputVars, updated, spawnTimes, atStart>>

InputStep ==
    /\ ~iterating
    /\ inputs < MaxInputs
    /\ inputs' = inputs + 1
    /\ trace' = <<>>
    /\ UNCHANGED <<now, ticks, gameVars, thrown, updated, spawnTimes, atStart>>

MouseMove(p) ==
    /\ InputStep
    /\ previousMousemoveEvent' = p
    /\ UNCHANGED <<isMouseDown, moveDirections>>

MouseDownFires ==
    /\ ~iterating
    /\ inputs < MaxInputs
    /\ inputs' = inputs + 1
    /\ isMouseDown' = TRUE
    /\ LET p == previousMousemoveEvent
       IN Commit(IF p # <<>> /\ isGamePlay
                 THEN attackTo(G, ArcherId, p[1] * PosScale, p[2] * PosScale, now)
                 ELSE G)
    /\ UNCHANGED <<now, ticks, previousMousemoveEvent, moveDirections, updated,
                   spawnTimes, atStart>>

MouseDown ==
    /\ InputStep
    /\ isMouseDown' = TRUE
    /\ UNCHANGED <<previousMousemoveEvent, moveDirections>>

MouseUp ==
    /\ InputStep
    /\ isMouseDown' = FALSE
    /\ UNCHANGED <<previousMousemoveEvent, moveDirections>>

KeyDown(key, repeat) ==
    /\ InputStep
    /\ moveDirections' = keydown(moveDirections, key, repeat)
    /\ UNCHANGED <<previousMousemoveEvent, isMouseDown>>

KeyUp(key, repeat) ==
    /\ InputStep
    /\ moveDirections' = keyup(moveDirections, key, repeat)
    /\ UNCHANGED <<previousMousemoveEvent, isMouseDown>>

Draws5(D) == D \X D \X D \X D \X D

\* Math.random() returning 0 five times
ZeroDraws == <<<<0, 1>>, <<0, 1>>, <<0, 1>>, <<0, 1>>, <<0, 1>>>>

\* the values of Math.random in a callback elapsed ms from now: it is
\* called five times from D, or not at all
DrawsAt(D, elapsed) ==
    IF score # totalEnemies /\ mayGenerate(G, now + elapsed) THEN Draws5(D) ELSE {ZeroDraws}

Next ==
    \/ \E e \in ElapsedSet : \E rs \in DrawsAt(RandomDraws, e) : TickStart(e, rs)
    \/ TickDispatch
    \/ TickEnd
    \/ \E p \in PointerTargets : MouseMove(p)
    \/ MouseDown
    \/ MouseUp
    \/ \E k \in KeySet, r \in BOOLEAN : KeyDown(k, r)
    \/ \E k \in KeySet, r \in BOOLEAN : KeyUp(k, r)

Spec == Init /\ [][Next]_vars

\* the phase of the spec: Playing, then the outcome the alert announced
phase == IF isGamePlay THEN "Playing" ELSE IF alerts = <<>> THEN "Stopped" ELSE alerts[Len(alerts)]

(***************************************************************************)
(* The score and the level over a whole game: enemies are generated one    *)
(* at a time, 1000 ms apart, and each is destroyed before the next.        *)
(***************************************************************************)
\* generateRandomEnemy in a timer callback 1000 ms after the last
\* generation, once the enemy generated before has been destroyed
Generate(rs) ==
    /\ isGamePlay
    /\ score # totalEnemies
    /\ enemies = <<>>
    /\ Commit(generateRandomEnemy(G, now + GenerationPeriod, rs))
    /\ now' = now + GenerationPeriod
    /\ spawnTimes' = Append(spawnTimes, now')
    /\ UNCHANGED <<ticks, inputs, inputVars, updated, atStart>>

\* enemy.destroy(), as ArchersBullet.checkEnemiesCollision calls it
Fall ==
    /\ enemies # <<>>
    /\ Commit(Destroy(G, Head(enemies)))
    /\ UNCHANGED <<now, ticks, inputs, inputVars, updated, spawnTimes, atStart>>

InitScore == InitWith(FullTotalEnemies)

NextScore ==
    \/ Generate(ZeroDraws)
    \/ Fall

SpecScore == InitScore /\ [][NextScore]_vars

(***************************************************************************)
(* Enemy generation for every outcome of Math.random, at the scores of     *)
(* SpawnScores.                                                            *)
(***************************************************************************)
SpawnScores == {0, 3, 4, 9, 15, 16, 25, 36, 49, 64, 81, 100, 142}

\* the values Math.random returns: 0, 1/3, 1/2 and 99/100
SpawnDraws == {<<0, 1>>, <<1, 3>>, <<1, 2>>, <<99, 100>>}

\* new game g after n enemies were generated, 1000 ms apart, and each was
\* destroyed before the next: the fields as the n-th generateRandomEnemy
\* and the addScore of the n-th Enemy.destroy leave them (addScore takes
\* the level from the score alone); destroyed enemies are left out of objs
AfterKills(g, n) ==
    IF n = 0 THEN g
    ELSE addScore([g EXCEPT !.score = n - 1,
                            !.enemiesLeft = g.totalEnemies - n,
                            !.lastTimeOfEnemyGeneration = n * GenerationPeriod,
                            !.prevTickTime = n * GenerationPeriod])

InitSpawn ==
    \E n \in SpawnScores :
        InitGame(AfterKills(NewGame(FullTotalEnemies), n), n * GenerationPeriod)

NextSpawn == \E rs \in Draws5(SpawnDraws) : Generate(rs)

SpecSpawn == InitSpawn /\ [][NextSpawn]_vars

(***************************************************************************)
(* The end of a game: every enemy but the last has been destroyed, so the  *)
(* level is 10 and the last enemy is of any species and tier.              *)
(***************************************************************************)
\* the values Math.random returns: 0, 1/2 and 99/100
LateDraws == {<<0, 1>>, <<1, 2>>, <<99, 100>>}

InitLate ==
    InitGame(AfterKills(NewGame(FullTotalEnemies), FullTotalEnemies - 1),
             (FullTotalEnemies - 1) * GenerationPeriod)

NextLate ==
    \/ \E e \in ElapsedSet : \E rs \in DrawsAt(LateDraws, e) : TickStart(e, rs)
    \/ TickDispatch
    \/ TickEnd
    \/ \E p \in PointerTargets : MouseMove(p)
    \/ MouseDown

SpecLate == InitLate /\ [][NextLate]_vars

(***************************************************************************)
(* A game whose first callbacks come before the first enemy can be         *)
(* generated, so that a projectile of the Archer is in flight, and ahead   *)
(* in the tick subscriptions, when the enemy appears.                      *)
(***************************************************************************)
OrderElapsed == {TickPeriod, 100, 900, GenerationPeriod}

NextOrder ==
    \/ \E e \in OrderElapsed : \E rs \in DrawsAt(RandomDraws, e) : TickStart(e, rs)
    \/ TickDispatch
    \/ TickEnd
    \/ \E p \in PointerTargets : MouseMove(p)
    \/ MouseDown

SpecOrder == Init /\ [][NextOrder]_vars

(***************************************************************************)
(* detectCollision on its own: the Archer where the constructor put it and *)
(* a projectile of an enemy placed around it, at distances below, at and   *)
(* above the sum of the two radii (13 px for an arrow or a sword, 14 px    *)
(* for a fire ball), on the axes and off them.                             *)
(***************************************************************************)
CollideKinds == {"EnemiesArrow", "EnemiesFireBall", "SkeletonsSword"}

\* offsets from the Archer, in position units
CollideOffsets ==
    {-140, -130, -120, -112, -84, -50, 0, 50, 84, 112, 120, 129, 130, 131, 140, 141}

\* the game with one projectile of kind kind, constructed and added
WithProjectile(kind) ==
    DynamicGameObjectAddToGame(NewGame(1), NewObject(kind, 0))

InitCollide == \E kind \in CollideKinds : InitGame(WithProjectile(kind), 0)

\* projectile.setPosition(x, y)
Place(x, y) ==
    /\ objs' = [objs EXCEPT ![2] = setPosition(@, x, y)]
    /\ trace' = <<>>
    /\ UNCHANGED <<now, ticks, inputs, totalEnemies, level, score, enemiesLeft,
                   enemies, isGamePlay, tickSubscriptions, prevTickTime,
                   tickingInterval, lastTimeOfEnemyGeneration, alerts, inputVars,
                   iterating, pending, thrown, updated, spawnTimes, atStart>>

\* detectCollision(projectile, archer) and detectCollision(archer, projectile)
Detect ==
    /\ trace = <<>>
    /\ trace' = <<Event("detectCollision", 2, ArcherId, 0, 0,
                        detectCollision(objs[2], objs[ArcherId])),
                  Event("detectCollision", ArcherId, 2, 0, 0,
                        detectCollision(objs[ArcherId], objs[2]))>>
    /\ UNCHANGED <<now, ticks, inputs, gameVars, inputVars, thrown, updated,
                   spawnTimes, atStart>>

NextCollide ==
    \/ \E dx, dy \in CollideOffsets :
          Place(objs[ArcherId].x + dx, objs[ArcherId].y + dy)
    \/ Detect

SpecCollide == InitCollide /\ [][NextCollide]_vars

(***************************************************************************)
(* stepTo on its own: a skeleton of the slowest or the fastest tier, put   *)
(* around the Archer, is stepped towards the Archer MaxTicks times, with   *)
(* the delta of a callback 30, 100 or 1000 ms after the last.              *)
(***************************************************************************)
StepTiers == {1, 3}

\* offsets from the Archer, in position units
StepOffsetsX == {-150, -37, 0, 4, 90}
StepOffsetsY == {-100, 0, 3, 120}

StepDeltas == {NormalDelta(TickPeriod), NormalDelta(100), NormalDelta(GenerationPeriod)}

\* the game with one skeleton of tier tier, dx and dy from the Archer
WithEnemy(tier, dx, dy) ==
    LET g == NewGame(1)
        def == ENEMIES[1]
        params == [size |-> def.size, bullet |-> def.bullet,
                   attackRange |-> def.attackRanges[tier],
                   attackSpeed |-> def.attackSpeeds[tier],
                   speed |-> def.speeds[tier]]
        e0 == applyParams(NewObject("Enemy", 0), params)
        e1 == setPosition(e0, g.objs[ArcherId].x + dx, g.objs[ArcherId].y + dy)
    IN EnemyAddToGame(g, e1)

InitStep ==
    \E tier \in StepTiers, dx \in StepOffsetsX, dy \in StepOffsetsY :
        InitGame(WithEnemy(tier, dx, dy), 0)

\* enemy.stepTo(archer.x, archer.y, delta); the event keeps the position
\* the enemy had before the call
StepToArcher(delta) ==
    /\ ticks < MaxTicks
    /\ ticks' = ticks + 1
    /\ objs' = [objs EXCEPT ![2] = stepTo(@, objs[ArcherId].x, objs[ArcherId].y, delta)]
    /\ trace' = <<Event("stepTo", 2, delta, objs[2].x, objs[2].y, objs[2].nan)>>
    /\ UNCHANGED <<now, inputs, totalEnemies, level, score, enemiesLeft,
                   enemies, isGamePlay, tickSubscriptions, prevTickTime,
                   tickingInterval, lastTimeOfEnemyGeneration, alerts, inputVars,
                   iterating, pending, thrown, updated, spawnTimes, atStart>>

NextStep == \E delta \in StepDeltas : StepToArcher(delta)

SpecStep == InitStep /\ [][NextStep]_vars

(***************************************************************************)
(* The keyboard: up to MaxKeyInputs keydown and keyup events of the four   *)
(* arrow keys between timer callbacks one period apart, so that three and  *)
(* four directions are held at once.                                       *)
(***************************************************************************)
ArrowKeys == {"ArrowRight", "ArrowDown", "ArrowLeft", "ArrowUp"}

\* a keyboard event is delivered
KeyStep ==
    /\ ~iterating
    /\ inputs < MaxKeyInputs
    /\ inputs' = inputs + 1
    /\ trace' = <<>>
    /\ UNCHANGED <<now, ticks, gameVars, thrown, updated, spawnTimes, atStart,
                   previousMousemoveEvent, isMouseDown>>

KeyPress(key) ==
    /\ KeyStep
    /\ moveDirections' = keydown(moveDirections, key, FALSE)

KeyRelease(key) ==
    /\ KeyStep
    /\ moveDirections' = keyup(moveDirections, key, FALSE)

NextKeys ==
    \/ \E rs \in DrawsAt(RandomDraws, TickPeriod) : TickStart(TickPeriod, rs)
    \/ TickDispatch
    \/ TickEnd
    \/ \E k \in ArrowKeys : KeyPress(k)
    \/ \E k \in ArrowKeys : KeyRelease(k)

SpecKeys == InitWith(1) /\ [][NextKeys]_vars

(***************************************************************************)
(* The interval goes on firing: timer callbacks 100 or 1000 ms apart, as   *)
(* many as fit before MaxTime, for as long as the interval is set and an   *)
(* enemy is left to generate.  setInterval calls its callback again and    *)
(* again, also after a callback that ended by an Error, and a callback     *)
(* that has started runs to its end: hence the weak fairness of the steps  *)
(* of the callbacks.  Input events come or do not come.                    *)
(***************************************************************************)
\* the last time, in ms, of a timer callback.  Callbacks come at most
\* GenerationPeriod apart, so that an enemy is generated less than twice
\* GenerationPeriod after the one before: time for every enemy of the game.
MaxTime == MaxTotalEnemies * 2 * GenerationPeriod

LiveElapsed == {100, GenerationPeriod}

TickLive(elapsed, rs) ==
    /\ ~iterating
    /\ tickingInterval
    /\ enemiesLeft > 0
    /\ now + elapsed <= MaxTime
    /\ \E g0 \in {G} : \E g \in {TickBegin(g0, now + elapsed, rs)} :
          /\ Commit(g)
          /\ spawnTimes' = IF EventsOf(g.trace, "spawn") # <<>>
                           THEN Append(spawnTimes, now + elapsed) ELSE spawnTimes
    /\ now' = now + elapsed
    /\ updated' = <<>>
    /\ atStart' = [subs |-> pending', score |-> score']
    /\ UNCHANGED <<ticks, inputs, inputVars>>

TicksLive == \E e \in LiveElapsed : \E rs \in DrawsAt(RandomDraws, e) : TickLive(e, rs)

NextLive ==
    \/ TicksLive
    \/ TickDispatch
    \/ TickEnd
    \/ \E p \in PointerTargets : MouseMove(p)
    \/ MouseDown

\* the next step of the interval: a callback starts, or the one that has
\* started goes on
TimerStep == TicksLive \/ TickDispatch \/ TickEnd

SpecLive == Init /\ [][NextLive]_vars /\ WF_vars(TimerStep)

(***************************************************************************)
(* Properties.                                                             *)
(***************************************************************************)
\* the live objects that are an enemy's projectile and overlap the Archer
HittingProjectiles ==
    {i \in 1..Len(objs) : /\ objs[i].kind \in EnemiesBulletKinds
                          /\ ~objs[i].destroyed
                          /\ detectCollision(objs[i], objs[ArcherId])}

\* C1: a timer callback that starts in phase Playing with score equal to
\* totalEnemies moves the phase to Won, generates no enemy, delivers no
\* update and stops the interval; once the interval is stopped and no
\* callback is running, no update is delivered any more.
C1_WinAtTickStart ==
    [][ /\ (~iterating /\ isGamePlay /\ score = totalEnemies /\ ticks' # ticks)
            => /\ phase' = "Won"
               /\ ~tickingInterval'
               /\ ~iterating'
               /\ objs' = objs
               /\ enemies' = enemies
               /\ enemiesLeft' = enemiesLeft
               /\ EventsOf(trace', "spawn") = <<>>
               /\ EventsOf(trace', "update") = <<>>
        /\ (~tickingInterval /\ ~iterating)
            => /\ ~iterating'
               /\ ticks' = ticks
               /\ EventsOf(trace', "update") = <<>>
      ]_vars

\* the game has been won by a callback that found score equal to totalEnemies
C1_Witness ==
    /\ phase = "Won"
    /\ score = totalEnemies
    /\ ~tickingInterval
    /\ ticks > 0

\* C2: the phase changes from Playing to Lost in a step exactly when that
\* step is the update of an enemy's projectile (arrow, fireball or sword)
\* which, after its own movement, overlaps the Archer.
C2_LostIffProjectileHits ==
    [][ (isGamePlay /\ phase' = "Lost")
        <=> /\ isGamePlay
            /\ iterating
            /\ pending # <<>>
            /\ objs[Head(pending)].kind \in EnemiesBulletKinds
            /\ detectCollision(objs'[Head(pending)], objs'[ArcherId])
      ]_vars

\* the game is lost by an arrow or a fireball, which is still on the
\* Archer, while an enemy's sword has been in flight as well
C2_Witness ==
    /\ phase = "Lost"
    /\ \E i \in HittingProjectiles : objs[i].kind \in {"EnemiesArrow", "EnemiesFireBall"}

\* C3: once the phase is Won or Lost it never changes and only one alert is
\* ever shown; after the callback in which it happened has completed, no
\* callback runs and score, enemiesRemaining, level, the live enemies and
\* the objects stay as they are.
C3_Terminal ==
    [][ /\ ~isGamePlay => (~isGamePlay' /\ alerts' = alerts)
        /\ Len(alerts') <= 1
        /\ (~isGamePlay /\ ~iterating)
            => /\ ~iterating'
               /\ ticks' = ticks
               /\ score' = score
               /\ enemiesLeft' = enemiesLeft
               /\ level' = level
               /\ enemies' = enemies
               /\ tickSubscriptions' = tickSubscriptions
               /\ objs' = objs
      ]_vars

\* the game is over, its last callback has completed and an input arrived
C3_Witness ==
    /\ phase \in {"Won", "Lost"}
    /\ ~iterating
    /\ trace = <<>>
    /\ inputs > 0

\* C4 as stated: no reachable state has score equal to totalEnemies and
\* phase Lost.
C4_NeverLostAtFullScore == ~(score = totalEnemies /\ phase = "Lost")

\* the last enemy fell and the Archer was hit, both in one timer callback
C4_LostAtFullScore ==
    /\ score = totalEnemies
    /\ phase = "Lost"
    /\ enemies = <<>>

\* the enemies of a sequence of objects that have been destroyed
Fallen(os) == {i \in 1..Len(os) : os[i].kind = "Enemy" /\ os[i].destroyed}

\* C6: in every step, score grows by the number of live enemies the step
\* destroys, and each of them has left the live enemies and the tick
\* subscriptions (and is not visited by the running forEach); score always
\* equals the number of enemies destroyed so far, so an enemy counts once
\* and nothing else changes score.
C6_DestroyScoresOnce ==
    [][ LET killed == Fallen(objs') \ Fallen(objs)
        IN /\ score' = score + Cardinality(killed)
           /\ score' = Cardinality(Fallen(objs'))
           /\ \A i \in killed : /\ SeqHas(enemies, i)
                                /\ SeqHas(tickSubscriptions, i)
                                /\ ~SeqHas(enemies', i)
                                /\ ~SeqHas(tickSubscriptions', i)
                                /\ ~SeqHas(pending', i)
      ]_vars

\* an enemy has been destroyed and counted
C6_Witness ==
    /\ score = 1
    /\ Cardinality(Fallen(objs)) = 1
    /\ EventsOf(trace, "addScore") # <<>>

\* the objects a step creates that are enemies
NewEnemies(os, os2) == {i \in (Len(os) + 1)..Len(os2) : os2[i].kind = "Enemy"}

\* C7: a step generates at most one enemy; the first generation is at
\* least 1000 ms after the game's creation and any two consecutive
\* generations are at least 1000 ms apart; a generation happens only with
\* enemiesRemaining > 0 and takes exactly 1 from it, nothing else changes
\* it, and it never becomes negative.
C7_SpawnRateLimited ==
    [][ LET n == Cardinality(NewEnemies(objs, objs'))
        IN /\ n <= 1
           /\ n = 1 => enemiesLeft > 0
           /\ enemiesLeft' = enemiesLeft - n
           /\ enemiesLeft' >= 0
           /\ Len(spawnTimes') = Len(spawnTimes) + n
           /\ \A i \in 1..Len(spawnTimes') :
                 spawnTimes'[i] >= (IF i = 1 THEN 0 ELSE spawnTimes'[i - 1]) + 1000
      ]_vars

\* two enemies have been generated, which used up enemiesRemaining
C7_Witness ==
    /\ Len(spawnTimes) = 2
    /\ enemiesLeft = 0
    /\ Cardinality({i \in 1..Len(objs) : objs[i].kind = "Enemy"}) = 2

\* attackTo has fired: the step created the caller's projectile
Fired(id) ==
    /\ Len(objs') = Len(objs) + 1
    /\ objs'[Len(objs')].kind = objs[id].bullet
    /\ objs'[id].lastAttackTime = now'

\* C10 as stated: a call of attackTo fires if and only if
\* now >= lastAttackTime + 1000 / attackSpeed ms.
C10_FiresAtOrAfterCooldown ==
    [][ \A i \in 1..Len(trace') :
          trace'[i].op = "attackTo" =>
            LET f == objs[trace'[i].id]
            IN Fired(trace'[i].id)
               <=> (now' - f.lastAttackTime) * f.attackSpeed >= 1000 * 100
      ]_vars

\* C10, amended: a call of attackTo fires if and only if
\* now > lastAttackTime + 1000 / attackSpeed ms; a call made exactly when
\* now equals lastAttackTime + 1000 / attackSpeed ms does not fire.
C10_FiresAfterCooldown ==
    [][ \A i \in 1..Len(trace') :
          trace'[i].op = "attackTo" =>
            LET f == objs[trace'[i].id]
            IN Fired(trace'[i].id)
               <=> (now' - f.lastAttackTime) * f.attackSpeed > 1000 * 100
      ]_vars

\* attackTo was called exactly when the cooldown ended, and did not fire
C10_Witness ==
    \E i \in 1..Len(trace) :
        /\ trace[i].op = "attackTo"
        /\ (trace[i].n1 - trace[i].n2) * trace[i].n3 = 1000 * 100
        /\ ~trace[i].flag
        /\ objs[trace[i].id].lastAttackTime = trace[i].n2

\* level is clamp(floor(sqrt(score)), 1, 10), stated by squares
LevelLaw ==
    /\ level \in 1..10
    /\ score < 4 => level = 1
    /\ (4 <= score /\ score < 100) =>
          (level * level <= score /\ score < (level + 1) * (level + 1))
    /\ score >= 100 => level = 10
    /\ score = 15 => level = 3
    /\ score = 16 => level = 4
    /\ score = 99 => level = 9

\* C5: before and after every step the level is
\* clamp(floor(sqrt(score)), 1, 10) (1 at score 0, 3 at 15, 4 at 16, 9 at
\* 99, 10 from 100 on), and no step decreases it.
C5_LevelFromScore ==
    [][LevelLaw /\ LevelLaw' /\ level' >= level]_vars

\* the score has passed 100 and the level is at its cap
C5_Witness ==
    /\ score = 101
    /\ level = 10
    /\ EventsOf(trace, "addScore") # <<>>

\* the position of object o is on the border of the game window
OnBoundary(o) ==
    LET w == gameParams.gameWindowWidth * PosScale
        h == gameParams.gameWindowHeight * PosScale
    IN /\ ~o.nan
       /\ \/ o.x \in {0, w} /\ 0 <= o.y /\ o.y <= h
          \/ o.y \in {0, h} /\ 0 <= o.x /\ o.x <= w

\* C8: the position given to a newly generated enemy is on the border of
\* the game window: x is 0 or the width with y between 0 and the height,
\* or y is 0 or the height with x between 0 and the width.
C8_SpawnOnBoundary ==
    \A i \in 1..Len(trace) :
        trace[i].op = "spawn" => OnBoundary(objs[trace[i].id])

\* an enemy was generated on the right border, away from the corners
C8_Witness ==
    \E i \in 1..Len(trace) :
        /\ trace[i].op = "spawn"
        /\ objs[trace[i].id].x = gameParams.gameWindowWidth * PosScale
        /\ objs[trace[i].id].y > 0
        /\ objs[trace[i].id].y < gameParams.gameWindowHeight * PosScale

\* C9: a newly generated enemy has a tier t in 0..2 with t <= level \div 4
\* and a species s in 0..2 with s <= min(level - 1, 2), level being the
\* level when it is generated; so s = 0 while score < 4 and t = 0 while
\* score < 16; its attackRange, attackSpeed, speed (and bullet and size)
\* are those of row t of species s of ENEMIES.
C9_TierAndSpecies ==
    \A i \in 1..Len(trace) :
        trace[i].op = "spawn" =>
            LET t == trace[i].n1
                sp == trace[i].n2
                o == objs[trace[i].id]
            IN /\ trace[i].n3 = level
               /\ t \in 0..2
               /\ t <= level \div 4
               /\ sp \in 0..2
               /\ sp <= Min(level - 1, 2)
               /\ score < 4 => sp = 0
               /\ score < 16 => t = 0
               /\ o.kind = "Enemy"
               /\ o.attackRange = ENEMIES[sp + 1].attackRanges[t + 1]
               /\ o.attackSpeed = ENEMIES[sp + 1].attackSpeeds[t + 1]
               /\ o.speed = ENEMIES[sp + 1].speeds[t + 1]
               /\ o.bullet = ENEMIES[sp + 1].bullet
               /\ o.width = ENEMIES[sp + 1].size.width

\* a magus of the top tier was generated
C9_Witness ==
    \E i \in 1..Len(trace) :
        /\ trace[i].op = "spawn"
        /\ trace[i].n1 = 2
        /\ trace[i].n2 = 2
        /\ objs[trace[i].id].attackRange = 230
        /\ objs[trace[i].id].speed = 140

\* the projectiles in os that the attackTo of Fighter f has created
Shots(os, f) == {i \in 1..Len(os) : os[i].owner = f}

\* more than 1000 / attackSpeed ms lie between time t0 and the later t1
Apart(t0, t1, attackSpeed) == (t1 - t0) * attackSpeed > 1000 * 100

\* C11 as stated: a call of attackTo creates a projectile exactly when no
\* projectile of the same Fighter was created in the last
\* 1000 / attackSpeed ms, for a Fighter that was just created as for any
\* other.
C11_OneShotPerInterval ==
    [][ \A i \in 1..Len(trace') :
          trace'[i].op = "attackTo" =>
            LET id == trace'[i].id
            IN Fired(id)
               <=> \A p \in Shots(objs, id) :
                      Apart(objs[p].born, now', objs[id].attackSpeed)
      ]_vars

\* C11, amended: a Fighter is on cooldown from its creation as from each
\* of its projectiles: a call of attackTo creates a projectile exactly when
\* more than 1000 / attackSpeed ms have passed since the Fighter was
\* created and since each of its projectiles was created (so a second call
\* within the interval creates none and a call after it creates one), and
\* two projectiles of one Fighter are never created less than
\* 1000 / attackSpeed ms apart.
C11_OneShotPerIntervalOnceReady ==
    [][ /\ \A i \in 1..Len(trace') :
             trace'[i].op = "attackTo" =>
               LET id == trace'[i].id
               IN Fired(id)
                  <=> /\ Apart(objs[id].born, now', objs[id].attackSpeed)
                      /\ \A p \in Shots(objs, id) :
                            Apart(objs[p].born, now', objs[id].attackSpeed)
        /\ \A f \in 1..Len(objs') : \A p, q \in Shots(objs', f) :
              (p # q /\ objs'[p].born <= objs'[q].born)
                 => (objs'[q].born - objs'[p].born) * objs'[f].attackSpeed >= 1000 * 100
      ]_vars

\* a Fighter has created a second projectile, and has since been asked to
\* attack within the interval
C11_Witness ==
    \E i \in 1..Len(trace) :
        /\ trace[i].op = "attackTo"
        /\ ~trace[i].flag
        /\ Cardinality(Shots(objs, trace[i].id)) = 2

\* object o with the fields its own movement writes blanked
Unmoved(o) == [o EXCEPT !.x = 0, !.y = 0, !.nan = FALSE, !.moveAngle = NaNAngle]

\* C12: a call of attackTo made on cooldown raises no error and creates no
\* object; it leaves lastAttackTime and every other field of every object
\* as they were (the position too, unless the caller is the Archer and its
\* own update then steps by the keys held), and the tick subscriptions, the
\* live enemies, score, level and the phase; and it is not kept for later:
\* a projectile is only ever created in the step of a call of its owner's
\* attackTo whose cooldown is over at that time.
C12_CooldownCallDropped ==
    [][ /\ \A i \in 1..Len(trace') :
             (trace'[i].op = "attackTo" /\ ~cooldownOver(objs[trace'[i].id], now')) =>
               LET id == trace'[i].id
               IN /\ ~thrown'
                  /\ Len(objs') = Len(objs)
                  /\ \A j \in 1..Len(objs) : j # id => objs'[j] = objs[j]
                  /\ Unmoved(objs'[id]) = Unmoved(objs[id])
                  /\ objs'[id].lastAttackTime = objs[id].lastAttackTime
                  /\ (objs[id].kind = "Enemy" \/ moveDirections = <<>>)
                        => objs'[id] = objs[id]
                  /\ tickSubscriptions' = tickSubscriptions
                  /\ pending' = Tail(pending)
                  /\ enemies' = enemies
                  /\ score' = score
                  /\ level' = level
                  /\ phase' = phase
        /\ \A j \in (Len(objs) + 1)..Len(objs') :
              objs'[j].kind \in BulletKinds =>
                \E i \in 1..Len(trace') :
                   /\ trace'[i].op = "attackTo"
                   /\ trace'[i].id = objs'[j].owner
                   /\ objs'[j].born = now'
                   /\ cooldownOver(objs[objs'[j].owner], now')
      ]_vars

\* an enemy within range was asked to attack on cooldown, after its first
\* projectile
C12_Witness ==
    \E i \in 1..Len(trace) :
        /\ trace[i].op = "attackTo"
        /\ ~trace[i].flag
        /\ objs[trace[i].id].kind = "Enemy"
        /\ Cardinality(Shots(objs, trace[i].id)) = 1
        /\ ~thrown

\* destroy() of object id in game g throws and leaves g as it is
DestroyRefused(g, id) ==
    LET g1 == Destroy(g, id)
    IN /\ g1.thrown
       /\ [g1 EXCEPT !.thrown = FALSE, !.trace = <<>>] = g
       /\ g1.objs[id].destroyed

\* C13: before and after every step, destroy() of any object that is
\* already destroyed (an enemy, a projectile) throws and changes nothing:
\* the object stays destroyed and score, level, the live enemies and the
\* tick subscriptions are as before; where a step does call destroy() on a
\* destroyed object, the Error ends the step's handler at once.
C13_SecondDestroyThrows ==
    [][ /\ \A id \in 1..Len(objs) : objs[id].destroyed => DestroyRefused(G, id)
        /\ \A id \in 1..Len(objs') : objs'[id].destroyed => DestroyRefused(G', id)
        /\ \A i \in 1..Len(trace') :
              (trace'[i].op = "destroy" /\ trace'[i].flag)
                 => /\ thrown'
                    /\ i = Len(trace')
                    /\ objs'[trace'[i].id].destroyed
                    /\ ~SeqHas(tickSubscriptions', trace'[i].id)
      ]_vars

\* a projectile was destroyed a second time, with a destroyed enemy around
C13_Witness ==
    /\ thrown
    /\ trace # <<>>
    /\ trace[Len(trace)].op = "destroy"
    /\ trace[Len(trace)].flag
    /\ Fallen(objs) # {}

\* the objects a step's handler has updated
UpdatedBy(tr) == {tr[i].id : i \in {j \in 1..Len(tr) : tr[j].op = "update"}}

\* C14: in one timer callback no object is updated twice, and an object
\* that is updated is not destroyed at that time: an object destroyed
\* earlier in the same forEach (or before it) is not updated any more.
C14_OneUpdateNoneAfterDestroy ==
    [][ /\ \A id \in UpdatedBy(trace') :
              /\ ~objs[id].destroyed
              /\ ~SeqHas(updated, id)
              /\ SeqHas(tickSubscriptions, id)
        /\ \A i, j \in 1..Len(updated') : updated'[i] = updated'[j] => i = j
        /\ Cardinality(UpdatedBy(trace')) <= 1
        /\ \A id \in 1..Len(objs') : objs'[id].destroyed => ~SeqHas(pending', id)
      ]_vars

\* an enemy that was subscribed when the forEach began was destroyed by a
\* projectile ahead of it, and the forEach passed it by
C14_Witness ==
    \E id \in Fallen(objs) :
        /\ SeqHas(atStart.subs, id)
        /\ ~SeqHas(updated, id)
        /\ \E p \in 1..Len(updated) :
              updated[p] < id /\ objs[updated[p]].kind = "ArchersBullet"

\* how many times the forEach has updated the object id
TimesUpdated(us, id) == Cardinality({i \in 1..Len(us) : us[i] = id})

\* the timer callback that began the forEach is left by this step
DispatchOver == iterating /\ ~iterating'

\* C15: when a timer callback in which an enemy was destroyed is over, every
\* object that was subscribed when its forEach began and is not destroyed
\* has been updated exactly once by that forEach.
C15_SurvivorsUpdatedOnce ==
    [][ (DispatchOver /\ score' > atStart.score) =>
           \A id \in {atStart.subs[i] : i \in 1..Len(atStart.subs)} :
               ~objs'[id].destroyed => TimesUpdated(updated', id) = 1
      ]_vars

\* an arrow of the Archer overlapping two enemies destroyed the first and was
\* refused its second destroy(): the Error left the forEach before an enemy
\* subscribed at its start, and still there, was updated
C15_SurvivorSkipped ==
    /\ thrown
    /\ ~iterating
    /\ score > atStart.score
    /\ \E i \in 1..Len(atStart.subs) :
          /\ ~objs[atStart.subs[i]].destroyed
          /\ objs[atStart.subs[i]].kind = "Enemy"
          /\ TimesUpdated(updated, atStart.subs[i]) = 0

\* an input event is delivered by this step
InputArrives == inputs' # inputs

\* the Archer moved or fired in this step
ArcherActs ==
    \/ objs'[ArcherId].x # objs[ArcherId].x
    \/ objs'[ArcherId].y # objs[ArcherId].y
    \/ objs'[ArcherId].lastAttackTime # objs[ArcherId].lastAttackTime
    \/ \E i \in 1..Len(objs') : i > Len(objs) /\ objs'[i].owner = ArcherId

\* C16: a mousemove, mousedown, mouseup, keydown or keyup event arrives
\* between timer callbacks and changes nothing but the Archer's
\* previousMousemoveEvent, isMouseDown and moveDirections: the score, the
\* level, enemiesLeft, the enemies, the tick subscriptions, the phase and
\* every object are as before; the Archer moves or fires only in its own
\* update.
C16_InputsOnlySetInputFields ==
    [][ /\ InputArrives =>
              /\ ~iterating
              /\ UNCHANGED <<score, level, enemiesLeft, enemies, tickSubscriptions,
                             isGamePlay, alerts, objs, prevTickTime,
                             lastTimeOfEnemyGeneration, tickingInterval>>
              /\ phase' = phase
        /\ ArcherActs => ~InputArrives /\ ArcherId \in UpdatedBy(trace')
      ]_vars

\* the pointer is on an enemy and the button is down since the last timer
\* callback, the Archer's cooldown is over, and no arrow has been fired yet
C16_Witness ==
    /\ ticks > 0
    /\ inputs = 2
    /\ ~iterating
    /\ isGamePlay
    /\ enemies # <<>>
    /\ isMouseDown
    /\ previousMousemoveEvent # <<>>
    /\ cooldownOver(objs[ArcherId], now)
    /\ \A i \in 1..Len(objs) : objs[i].owner # ArcherId

\* twice the distance between the centres, squared, in position units
Dist2x2(a, b) == 4 * ((a.x - b.x) * (a.x - b.x) + (a.y - b.y) * (a.y - b.y))

\* the sum of the two radii, doubled, in position units
Reach2(a, b) == (Min(a.width, a.height) + Min(b.width, b.height)) * PosScale

\* the calls of detectCollision the last step made
Detections == {k \in 1..Len(trace) : trace[k].op = "detectCollision"}

\* C17: detectCollision(a, b) is true exactly when the distance between the
\* centres, Math.sqrt(dx * dx + dy * dy), is less than the sum of the radii
\* min(width, height) / 2; at a distance equal to that sum it is false; and
\* detectCollision(b, a) returns the same.
C17_CollisionIffCloser ==
    \A k \in Detections :
        LET a == objs[trace[k].id]
            b == objs[trace[k].n1]
        IN /\ trace[k].flag <=> Isqrt(Dist2x2(a, b)) < Reach2(a, b)
           /\ Dist2x2(a, b) = Reach2(a, b) * Reach2(a, b) => ~trace[k].flag
           /\ \A j \in Detections :
                 (trace[j].id = trace[k].n1 /\ trace[j].n1 = trace[k].id)
                    => trace[j].flag = trace[k].flag

\* detectCollision was called with the projectile exactly the sum of the
\* radii away from the Archer, off the axes
C17_Witness ==
    \E k \in Detections :
        LET a == objs[trace[k].id]
            b == objs[trace[k].n1]
        IN /\ Dist2x2(a, b) = Reach2(a, b) * Reach2(a, b)
           /\ a.x # b.x
           /\ a.y # b.y
           /\ ~trace[k].flag

\* the square of the distance from (x, y) to the Archer, in position units
ToArcherSq(x, y) ==
    (x - objs[ArcherId].x) * (x - objs[ArcherId].x)
        + (y - objs[ArcherId].y) * (y - objs[ArcherId].y)

\* the calls of stepTo the last step made, from a position that is a number
StepsTo == {k \in 1..Len(trace) : trace[k].op = "stepTo" /\ ~trace[k].flag}

\* C18 as claimed: after a stepTo from a position whose x differs from the
\* target's, the distance to the target is smaller than before.
C18_EveryStepCloser ==
    \A k \in StepsTo :
        trace[k].n2 # objs[ArcherId].x =>
            /\ ~objs[trace[k].id].nan
            /\ ToArcherSq(objs[trace[k].id].x, objs[trace[k].id].y)
                  < ToArcherSq(trace[k].n2, trace[k].n3)

\* C18, amended: after a stepTo from a position other than the target's, with
\* a step speed * delta that is more than zero and no more than the distance
\* to the target, the distance to the target is smaller than before; this
\* holds too where x equals the target's x.
C18_ShortStepCloser ==
    \A k \in StepsTo :
        LET o == objs[trace[k].id]
            step == Travel(o.speed, trace[k].n1)
            before == ToArcherSq(trace[k].n2, trace[k].n3)
        IN (before > 0 /\ step > 0 /\ step * step <= before) =>
              /\ ~o.nan
              /\ ToArcherSq(o.x, o.y) < before

\* a step no longer than the distance, from straight below or above the
\* target (dx = 0), has brought the enemy closer
C18_Witness ==
    \E k \in StepsTo :
        LET o == objs[trace[k].id]
            step == Travel(o.speed, trace[k].n1)
            before == ToArcherSq(trace[k].n2, trace[k].n3)
        IN /\ trace[k].n2 = objs[ArcherId].x
           /\ step > 0
           /\ step * step <= before
           /\ ToArcherSq(o.x, o.y) < before

\* C19: a timer callback that goes on to the forEach delivers the delta of
\* the time since the callback before it: that callback set prevTickTime
\* to its own time, whatever happened in its forEach.
C19_DeltaOfOneTick ==
    [][ (ticks' = ticks + 1 /\ ticks > 0 /\ iterating') =>
           NormalDelta(now' - prevTickTime') = NormalDelta(now' - now)
      ]_vars

\* an update has been given a delta longer than the longest time between
\* two timer callbacks: the callback before ended by an Error and left
\* prevTickTime as it was
C19_AccumulatedDelta ==
    /\ iterating
    /\ ticks > 1
    /\ prevTickTime < now - GenerationPeriod
    /\ \E k \in 1..Len(trace) :
          /\ trace[k].op = "update"
          /\ trace[k].n1 = NormalDelta(now - prevTickTime)
          /\ trace[k].n1 > NormalDelta(GenerationPeriod)

\* the calls of destroy() in the last step on an object already destroyed
SecondDestroys == {k \in 1..Len(trace) : trace[k].op = "destroy" /\ trace[k].flag}

\* C20: no step calls destroy() on an object that is destroyed already.
C20_NoSecondDestroy == SecondDestroys = {}

\* an arrow of the Archer that overlapped two enemies destroyed itself and
\* the first, and was then told to destroy itself again
C20_DestroyedTwice ==
    \E k \in SecondDestroys :
        /\ objs[trace[k].id].kind = "ArchersBullet"
        /\ \E i, j \in 1..(k - 1) :
              /\ i < j
              /\ trace[i].op = "destroy" /\ trace[i].id = trace[k].id /\ ~trace[i].flag
              /\ trace[j].op = "destroy" /\ objs[trace[j].id].kind = "Enemy"
        /\ \E e \in 1..Len(enemies) : detectCollision(objs[trace[k].id], objs[enemies[e]])

\* the objects that were added to the game and are not destroyed
AliveInGame == {i \in 1..Len(objs) : objs[i].inGame /\ ~objs[i].destroyed}

\* the members of a sequence
Members(q) == {q[i] : i \in 1..Len(q)}

\* C21: between timer callbacks the tick subscriptions are exactly the
\* objects added to the game and not destroyed, each once, and the live
\* enemies are exactly the enemies among them, each once.
C21_SubscribersAreTheAlive ==
    ~iterating =>
        /\ Members(tickSubscriptions) = AliveInGame
        /\ Cardinality(Members(tickSubscriptions)) = Len(tickSubscriptions)
        /\ Members(enemies) = {i \in AliveInGame : objs[i].kind = "Enemy"}
        /\ Cardinality(Members(enemies)) = Len(enemies)

\* between two callbacks, after an enemy and a projectile have been
\* destroyed, with an enemy and a projectile still in the game
C21_Witness ==
    /\ ~iterating
    /\ ticks > 0
    /\ Fallen(objs) # {}
    /\ \E i \in 1..Len(objs) : objs[i].kind \in BulletKinds /\ objs[i].destroyed
    /\ \E i \in AliveInGame : objs[i].kind \in BulletKinds
    /\ enemies # <<>>

\* the distance from object o to the Archer is no more than o's attackRange
InRange(o, archer) ==
    (o.x - archer.x) * (o.x - archer.x) + (o.y - archer.y) * (o.y - archer.y)
        <= (o.attackRange * PosScale) * (o.attackRange * PosScale)

\* the calls of attackTo by object id in a trace
AttacksBy(tr, id) == {k \in 1..Len(tr) : tr[k].op = "attackTo" /\ tr[k].id = id}

\* the objects a step has constructed
Created == {i \in 1..Len(objs') : i > Len(objs)}

\* C22: an update of an enemy no farther from the Archer than its
\* attackRange calls attackTo once and leaves the enemy where it is; an
\* update of an enemy farther away calls no attackTo, constructs nothing
\* and moves the enemy by stepTo towards the Archer.  So every projectile
\* of an enemy is constructed within its attackRange.
C22_AttackOrStep ==
    [][ \A id \in UpdatedBy(trace') :
           objs[id].kind = "Enemy" =>
              LET delta == trace'[1].n1
              IN IF InRange(objs[id], objs[ArcherId])
                 THEN /\ Cardinality(AttacksBy(trace', id)) = 1
                      /\ objs'[id].x = objs[id].x
                      /\ objs'[id].y = objs[id].y
                      /\ objs'[id].nan = objs[id].nan
                 ELSE /\ AttacksBy(trace', id) = {}
                      /\ Created = {}
                      /\ objs'[id] = stepTo(objs[id], objs[ArcherId].x,
                                            objs[ArcherId].y, delta)
      ]_vars

\* an enemy exactly its attackRange away from the Archer has fired
C22_Witness ==
    \E id \in UpdatedBy(trace) :
        /\ objs[id].kind = "Enemy"
        /\ (objs[id].x - objs[ArcherId].x) * (objs[id].x - objs[ArcherId].x)
              + (objs[id].y - objs[ArcherId].y) * (objs[id].y - objs[ArcherId].y)
              = (objs[id].attackRange * PosScale) * (objs[id].attackRange * PosScale)
        /\ \E k \in AttacksBy(trace, id) : trace[k].flag
        /\ \E i \in 1..Len(objs) : objs[i].owner = id /\ objs[i].born = now

\* the position of o is a point of the floor
Inside(o) ==
    /\ ~o.nan
    /\ o.x >= 0 /\ o.x <= gameParams.gameWindowWidth * PosScale
    /\ o.y >= 0 /\ o.y <= gameParams.gameWindowHeight * PosScale

\* C23: a projectile that is not destroyed after its update is inside the
\* floor; so between callbacks no projectile that has been updated is in
\* the game outside the floor.
C23_AliveProjectileInside ==
    [][ /\ \A id \in UpdatedBy(trace') :
              (objs[id].kind \in BulletKinds /\ ~objs'[id].destroyed)
                  => Inside(objs'[id])
        /\ ~iterating' =>
              \A id \in 1..Len(objs') :
                  (objs'[id].kind \in BulletKinds /\ ~objs'[id].destroyed
                     /\ objs'[id].born < now')
                      => Inside(objs'[id])
      ]_vars

\* an arrow the Archer shot at its own position has been updated and is in
\* the game with a position that is not a number
C23_AliveNowhere ==
    /\ ~iterating
    /\ \E id \in 1..Len(objs) :
          /\ objs[id].kind = "ArchersBullet"
          /\ objs[id].nan
          /\ ~objs[id].destroyed
          /\ SeqHas(tickSubscriptions, id)
          /\ objs[id].born < now

\* the updates a step has made in a timer callback that came exactly one
\* period (30 ms) after prevTickTime, the time of the last callback that
\* ran to its end
OnScheduleUpdates ==
    {k \in 1..Len(trace') : /\ trace'[k].op = "update"
                            /\ iterating
                            /\ now - prevTickTime = TickPeriod}

\* C24 as claimed: an update of a callback one period after the last is
\* given delta = 1.0 (1000 thousandths).
C24_OnScheduleDeltaIsOne ==
    [][ \A k \in OnScheduleUpdates : trace'[k].n1 = 1000 ]_vars

\* C24, amended: an update of a callback one period after the last is given
\* delta = 30 / (1000 / 30) = 0.9 (900 thousandths).
C24_OnScheduleDeltaIsNineTenths ==
    [][ \A k \in OnScheduleUpdates : trace'[k].n1 = 900 ]_vars

\* an update has been made in a callback 30 ms after the one before, which
\* ran to its end
C24_Witness ==
    /\ iterating
    /\ ticks > 1
    /\ now - prevTickTime = TickPeriod
    /\ \E k \in 1..Len(trace) : trace[k].op = "update" /\ trace[k].n1 = 900

\* the direction d points along x (1, -1) or not (0), and along y
AlongX(d) == IF d = "Right" THEN 1 ELSE IF d = "Left" THEN -1 ELSE 0
AlongY(d) == IF d = "Down" THEN 1 ELSE IF d = "Up" THEN -1 ELSE 0

\* two directions at a right angle
Perpendicular(d, e) == AlongX(d) * AlongX(e) + AlongY(d) * AlongY(e) = 0 /\ d # e

\* C25: an update of the Archer with no direction held leaves it where it
\* is; with one direction held it moves it speed * delta in that direction
\* (Right +x, Down +y, Left -x, Up -y); with two perpendicular directions
\* held it moves it speed * delta along their bisector, cos 45 = sin 45 of
\* the step along each of the two.
C25_HeadingOfHeldDirections ==
    [][ LET a == objs[ArcherId]
            b == objs'[ArcherId]
            step == Travel(a.speed, trace'[1].n1)
            md == moveDirections
            diag == Round(Diag * step, DirScale)
        IN ArcherId \in UpdatedBy(trace') =>
              /\ (md = <<>>) => (b.x = a.x /\ b.y = a.y)
              /\ (Len(md) = 1) =>
                    (/\ b.x = a.x + AlongX(md[1]) * step
                     /\ b.y = a.y + AlongY(md[1]) * step)
              /\ (Len(md) = 2 /\ Perpendicular(md[1], md[2])) =>
                    (/\ b.x = a.x + (AlongX(md[1]) + AlongX(md[2])) * diag
                     /\ b.y = a.y + (AlongY(md[1]) + AlongY(md[2])) * diag)
      ]_vars

\* the Archer has been updated with Up and Right held and is up and to the
\* right of where the constructor put it
C25_Witness ==
    /\ ArcherId \in UpdatedBy(trace)
    /\ Members(moveDirections) = {"Up", "Right"}
    /\ 2 * objs[ArcherId].x > gameParams.gameWindowWidth * PosScale
    /\ 2 * objs[ArcherId].y < gameParams.gameWindowHeight * PosScale

\* the orders in which the directions of md can have been added
Orders(md) ==
    {q \in [1..Len(md) -> Members(md)] : Members(q) = Members(md)}

\* C26: the heading of an Archer update is the same for every order in
\* which the held directions can have been pressed.
C26_HeadingWhateverTheOrder ==
    moveDirections # <<>> =>
        \A q \in Orders(moveDirections) :
            ArcherHeading(q) = ArcherHeading(moveDirections)

\* the Archer has been updated with Right, Down and Left held, pressed in
\* that order, and has moved to the right; pressed in the order Left, Down,
\* Right the heading is another
C26_OrderDecides ==
    /\ ArcherId \in UpdatedBy(trace)
    /\ moveDirections = <<"Right", "Down", "Left">>
    /\ 2 * objs[ArcherId].x > gameParams.gameWindowWidth * PosScale
    /\ ArcherHeading(<<"Left", "Down", "Right">>) # ArcherHeading(moveDirections)

\* C27: score, the number of live enemies and enemiesLeft always add up to
\* totalEnemies; so score is never more than totalEnemies, and in a game
\* that has been won there is no live enemy and none left to generate.
C27_EnemyAccounting ==
    /\ score + Len(enemies) + enemiesLeft = totalEnemies
    /\ score <= totalEnemies
    /\ enemiesLeft >= 0
    /\ phase = "Won" => (enemies = <<>> /\ enemiesLeft = 0)

\* of two enemies one has been destroyed and the other is in the game
C27_Witness ==
    /\ phase = "Playing"
    /\ totalEnemies = 2
    /\ score = 1
    /\ Len(enemies) = 1
    /\ enemiesLeft = 0

\* the position of o, a number, is off the floor
Outside(o) == ~o.nan /\ ~Inside(o)

\* the step has a call of op in its trace
Calls(tr, op) == \E k \in 1..Len(tr) : tr[k].op = op

\* the first destroy() of object id in a trace, 0 if there is none
FirstDestroy(tr, id) ==
    LET ks == {k \in 1..Len(tr) : tr[k].op = "destroy" /\ tr[k].id = id}
    IN IF ks = {} THEN 0 ELSE CHOOSE k \in ks : \A j \in ks : k <= j

\* C28: the update of an enemy's projectile whose movement takes it off the
\* floor, so that it is destroyed, does not end the game; and once an arrow
\* of the Archer is destroyed in its update, that update destroys no enemy.
C28_DestroyedProjectileInert ==
    [][ \A id \in UpdatedBy(trace') :
           /\ (objs[id].kind \in EnemiesBulletKinds /\ Outside(objs'[id]))
                 => /\ objs'[id].destroyed
                    /\ ~Calls(trace', "gameOver")
                    /\ isGamePlay' = isGamePlay
           /\ (objs[id].kind = "ArchersBullet" /\ Outside(objs'[id]))
                 => /\ objs'[id].destroyed
                    /\ Fallen(objs') = Fallen(objs)
      ]_vars

\* an enemy's projectile left the floor in its update, was destroyed, and
\* the same update ended the game because it overlapped the Archer
C28_LostToDestroyedProjectile ==
    /\ phase = "Lost"
    /\ \E id \in UpdatedBy(trace) :
          /\ objs[id].kind \in EnemiesBulletKinds
          /\ objs[id].destroyed
          /\ Outside(objs[id])
          /\ detectCollision(objs[id], objs[ArcherId])
          /\ FirstDestroy(trace, id) # 0
          /\ \E k \in 1..Len(trace) : trace[k].op = "gameOver" /\ k > FirstDestroy(trace, id)

\* the objects constructed in the timer callback at time t
BornAt(os, t) == {i \in 1..Len(os) : os[i].born = t /\ os[i].inGame}

\* C29: when a timer callback is over and the game is still played, every
\* object added in that callback (the enemy it generated, the projectiles
\* attackTo constructed in its forEach) has been updated by its forEach
\* exactly once.
C29_NewcomersUpdatedOnce ==
    [][ (DispatchOver /\ isGamePlay') =>
           \A id \in BornAt(objs', now') : TimesUpdated(updated', id) = 1
      ]_vars

\* a callback was ended by an Error with the game still played, before its
\* forEach reached a projectile that attackTo had constructed, and
\* subscribed, in that callback
C29_NewcomerNotUpdated ==
    /\ thrown
    /\ ~iterating
    /\ isGamePlay
    /\ \E id \in BornAt(objs, now) :
          /\ objs[id].kind \in BulletKinds
          /\ ~objs[id].destroyed
          /\ SeqHas(tickSubscriptions, id)
          /\ TimesUpdated(updated, id) = 0

\* C30: with the interval firing, every game comes to an end (Won or Lost)
\* or to the generation of its last enemy.
C30_EveryEnemyGenerated ==
    <>(phase \in {"Won", "Lost"} \/ enemiesLeft = 0)

\* both enemies of a game have been generated and the game is still played
C30_Witness ==
    /\ phase = "Playing"
    /\ totalEnemies = 2
    /\ enemiesLeft = 0
    /\ Len(spawnTimes) = 2
    /\ now <= MaxTime

====
